---- MODULE Spec2Model ----
(***************************************************************************)
(* A model of the telegram-emoji MCP server: the file-backed pack cache    *)
(* (cache.ts), the Telegram fetch helpers (telegram.ts), the fstik search  *)
(* helper (fstik.ts) and the tool handlers of index.ts.                    *)
(*                                                                         *)
(* Strings are sequences of one-token "characters".  The tokens that the   *)
(* code distinguishes are kept apart: ":" "{" "}" the digits, upper- and   *)
(* lower-case letters, the blank, an emoji glyph ("fire"), the variation   *)
(* selector U+FE0F ("FE0F") and the placeholder glyph U+2753 ("qmark").    *)
(* An optional value (a TypeScript `x?: T`) is the set {} (undefined) or   *)
(* {v}.                                                                    *)
(***************************************************************************)
EXTENDS Integers, Sequences, FiniteSets, TLC

VARIABLES
    token,      \* TOKEN (index.ts:20): TRUE when TELEGRAM_BOT_TOKEN is set
    envPacks,   \* the names listed in EMOJI_PACKS (index.ts:171)
    packs,      \* Cache.data.packs: the records in insertion order
    file,       \* the backing document emoji-cache.json
    previews,   \* names p for which previews/<p>.png has been written
    alive,      \* FALSE once the process has died at start-up
    lastOk,     \* history: per name, the emoji list of its last successful sync
    lastOp,     \* history: the last tool call, its inputs and what it returned
    arg,        \* the arguments of a call of a read-only tool
    out,        \* what that call returned, once it has
    job,        \* a sync followed step by step: its downloads in flight
    sheets      \* per name, what previews/<name>.png holds: the composed sheet

callVars == <<arg, out, job, sheets>>

vars == <<token, envPacks, packs, file, previews, alive, lastOk, lastOp, arg, out, job, sheets>>

(***************************************************************************)
(* Bounds of the model.                                                    *)
(***************************************************************************)
MaxQueryLen == 2

(***************************************************************************)
(* Program constants.                                                      *)
(***************************************************************************)
MaxMessageLen == 4096

PackNames == {"p1", "p2"}

(***************************************************************************)
(* Optional values.                                                        *)
(***************************************************************************)
Undefined == {}

Some(v) == {v}

TheValue(o) == CHOOSE v \in o : TRUE

(* a ?? b *)
OrElse(o, b) == IF o = Undefined THEN b ELSE TheValue(o)

(***************************************************************************)
(* String helpers.                                                         *)
(***************************************************************************)
LowerChar(c) == CASE c = "A" -> "a" [] c = "G" -> "g" [] OTHER -> c

ToLowerCase(s) == [i \in DOMAIN s |-> LowerChar(s[i])]

IsSpace(c) == c = " "

RECURSIVE TrimStart(_)
TrimStart(s) == IF s # <<>> /\ IsSpace(Head(s)) THEN TrimStart(Tail(s)) ELSE s

RECURSIVE TrimEnd(_)
TrimEnd(s) ==
    IF s # <<>> /\ IsSpace(s[Len(s)]) THEN TrimEnd(SubSeq(s, 1, Len(s) - 1)) ELSE s

Trim(s) == TrimEnd(TrimStart(s))

(* String.prototype.includes *)
Includes(s, q) ==
    \E i \in 0..(Len(s) - Len(q)) : SubSeq(s, i + 1, i + Len(q)) = q

IsVS16(c) == c = "FE0F"

(* s.replace(/\uFE0F/g, "") *)
stripVariationSelectors(s) == SelectSeq(s, LAMBDA c : ~IsVS16(c))

(***************************************************************************)
(* What the Telegram Bot API can answer to getStickerSet (types.ts).       *)
(***************************************************************************)
StickerA ==
    [file_unique_id |-> <<"A", "g", "1">>, custom_emoji_id |-> Some(<<"1", "2">>),
     emoji |-> Some(<<"fire", "FE0F">>), thumbnail |-> Some("tA")]

StickerB ==
    [file_unique_id |-> <<"A", "g", "2">>, custom_emoji_id |-> Undefined,
     emoji |-> Undefined, thumbnail |-> Undefined]

StickerC ==
    [file_unique_id |-> <<"g", "2">>, custom_emoji_id |-> Some(<<"2">>),
     emoji |-> Some(<<"fire">>), thumbnail |-> Some("tC")]

RemoteSets ==
    { [title |-> "T1", stickers |-> <<StickerA, StickerB>>],
      [title |-> "T2", stickers |-> <<StickerB, StickerC>>] }

(***************************************************************************)
(* Cache (cache.ts).  data.packs is a JavaScript object: at most one value *)
(* per key, enumerated in insertion order.  It is kept as the sequence of  *)
(* its entries [key, value].                                               *)
(***************************************************************************)
KeyIndexes(ps, k) == {i \in DOMAIN ps : ps[i].key = k}

(* this.data.packs[name] *)
getPack(ps, name) ==
    IF KeyIndexes(ps, name) = {}
    THEN Undefined
    ELSE Some(ps[CHOOSE i \in KeyIndexes(ps, name) :
                     \A j \in KeyIndexes(ps, name) : i <= j].value)

(* a plausible slip: the new list is merged into the record already there *)
AssignPackMerging(ps, pack) ==
    IF KeyIndexes(ps, pack.name) = {}
    THEN Append(ps, [key |-> pack.name, value |-> pack])
    ELSE [i \in DOMAIN ps |->
            IF ps[i].key = pack.name
            THEN [key |-> pack.name,
                  value |-> [pack EXCEPT !.emojis = ps[i].value.emojis \o pack.emojis]]
            ELSE ps[i]]

(* this.data.packs[pack.name] = pack *)
AssignPack(ps, pack) ==
    IF KeyIndexes(ps, pack.name) = {}
    THEN Append(ps, [key |-> pack.name, value |-> pack])
    ELSE [i \in DOMAIN ps |->
            IF ps[i].key = pack.name THEN [key |-> pack.name, value |-> pack] ELSE ps[i]]

(* JSON.stringify of one emoji: a key whose value is undefined is left out *)
EmojiToJson(e) ==
    LET base == [custom_emoji_id |-> e.custom_emoji_id, emoji |-> e.emoji,
                 set_name |-> e.set_name]
    IN  IF e.thumbnail_file_id = Undefined
        THEN base
        ELSE base @@ ("thumbnail_file_id" :> TheValue(e.thumbnail_file_id))

PackToJson(p) ==
    LET base == [name |-> p.name, title |-> p.title,
                 emojis |-> [i \in DOMAIN p.emojis |-> EmojiToJson(p.emojis[i])],
                 synced_at |-> p.synced_at]
    IN  IF p.preview_path = Undefined
        THEN base
        ELSE base @@ ("preview_path" :> TheValue(p.preview_path))

(* JSON.stringify(this.data, null, 2) *)
Stringify(ps) == [i \in DOMAIN ps |-> [key |-> ps[i].key, value |-> PackToJson(ps[i].value)]]

(* reading a key that the parsed object does not have yields undefined *)
EmojiFromJson(d) ==
    [custom_emoji_id |-> d.custom_emoji_id, emoji |-> d.emoji, set_name |-> d.set_name,
     thumbnail_file_id |->
        IF "thumbnail_file_id" \in DOMAIN d THEN Some(d.thumbnail_file_id) ELSE Undefined]

PackFromJson(d) ==
    [name |-> d.name, title |-> d.title,
     emojis |-> [i \in DOMAIN d.emojis |-> EmojiFromJson(d.emojis[i])],
     synced_at |-> d.synced_at,
     preview_path |-> IF "preview_path" \in DOMAIN d THEN Some(d.preview_path) ELSE Undefined]

(* JSON.parse(readFileSync(filePath, "utf-8")) *)
Parse(doc) == [i \in DOMAIN doc |-> [key |-> doc[i].key, value |-> PackFromJson(doc[i].value)]]

(***************************************************************************)
(* The backing file: missing, a complete document, or cut short by a write *)
(* that failed half-way.                                                   *)
(***************************************************************************)
MissingFile == [state |-> "missing", doc |-> <<>>]

TruncatedFile == [state |-> "truncated", doc |-> <<>>]

WrittenFile(ps) == [state |-> "ok", doc |-> Stringify(ps)]

(* new Cache(filePath): what the constructor leaves in this.data *)
Load(f) == IF f.state = "ok" THEN Parse(f.doc) ELSE <<>>

(* JSON.parse throws on a document that is cut short *)
LoadThrows(f) == f.state = "truncated"

(* Cache.allEmojis: pack order, then in-pack order *)
RECURSIVE allEmojis(_)
allEmojis(ps) == IF ps = <<>> THEN <<>> ELSE Head(ps).value.emojis \o allEmojis(Tail(ps))

(* Cache.listPacks *)
listPacks(ps) ==
    [i \in DOMAIN ps |-> [name |-> ps[i].value.name, title |-> ps[i].value.title,
                          count |-> Len(ps[i].value.emojis)]]

(* Cache.searchEmoji *)
searchEmoji(ps, query) ==
    IF query = <<>> \/ Trim(query) = <<>>
    THEN <<>>
    ELSE LET q == stripVariationSelectors(Trim(ToLowerCase(query)))
         IN  SelectSeq(allEmojis(ps),
                       LAMBDA e : \/ Includes(stripVariationSelectors(e.emoji), q)
                                  \/ Includes(e.custom_emoji_id, q))

(***************************************************************************)
(* syncViaTelegram (index.ts).  `ch` is what the environment does during   *)
(* this sync: ch.fetch is the outcome of getStickerSet ("ok", or the way   *)
(* it throws), ch.set the sticker set it returns.  The thumbnail downloads *)
(* never reject the sync (Promise.allSettled); which of them leave a blob  *)
(* is followed step by step further down, under FetchSpec.                 *)
(***************************************************************************)
ToCachedEmoji(s, name) ==
    [custom_emoji_id |-> OrElse(s.custom_emoji_id, s.file_unique_id),
     emoji |-> OrElse(s.emoji, <<"qmark">>),
     set_name |-> name,
     thumbnail_file_id |-> s.thumbnail]

syncViaTelegram(tok, name, ch) ==
    IF ~tok
    THEN [ok |-> FALSE, error |-> "TELEGRAM_BOT_TOKEN not set", emojis |-> <<>>, title |-> ""]
    ELSE IF ch.fetch # "ok"
    THEN [ok |-> FALSE, error |-> ch.fetch, emojis |-> <<>>, title |-> ""]
    ELSE [ok |-> TRUE, error |-> "",
          emojis |-> [i \in DOMAIN ch.set.stickers |-> ToCachedEmoji(ch.set.stickers[i], name)],
          title |-> ch.set.title]

(***************************************************************************)
(* One iteration of the loop of the sync_emoji_pack handler, on the server *)
(* The result line also records (history) whether this successful sync     *)
(* came after a successful sync of the same name with another emoji list.  *)
(* state st = [token, packs, file, previews, lastOk].  ch.compose is the   *)
(* outcome of generateSpriteSheet, ch.save that of writeFileSync inside    *)
(* Cache.save: "ok", or it throws leaving the file as it was ("unchanged") *)
(* or cut short ("truncated").                                             *)
(***************************************************************************)
FileAfterSave(f, ps, outcome) ==
    CASE outcome = "ok" -> WrittenFile(ps)
      [] outcome = "unchanged" -> f
      [] OTHER -> TruncatedFile

(* Cache.setPack: the assignment, then save() *)
setPack(st, pack, outcome) ==
    LET ps == AssignPack(st.packs, pack)
    IN  [st EXCEPT !.packs = ps, !.file = FileAfterSave(st.file, ps, outcome)]

SyncLine(name, ok, error, count, replaced) ==
    [name |-> name, ok |-> ok, error |-> error, count |-> count, replaced |-> replaced]

SyncOne(st, name, ch) ==
    LET got == syncViaTelegram(st.token, name, ch)
    IN  IF ~got.ok
        THEN [st |-> st, line |-> SyncLine(name, FALSE, got.error, 0, FALSE)]
        ELSE IF ch.compose # "ok"
        THEN [st |-> st, line |-> SyncLine(name, FALSE, "sprite", 0, FALSE)]
        ELSE LET pack == [name |-> name, title |-> got.title, emojis |-> got.emojis,
                          synced_at |-> "now", preview_path |-> Some(name)]
                 composed == [st EXCEPT !.previews = @ \cup {name}]
                 stored == setPack(composed, pack, ch.save)
             IN  IF ch.save = "ok"
                 THEN [st |-> [stored EXCEPT !.lastOk[name] = Some(got.emojis)],
                       line |-> SyncLine(name, TRUE, "", Len(got.emojis),
                                         st.lastOk[name] \notin {Undefined, Some(got.emojis)})]
                 ELSE [st |-> stored, line |-> SyncLine(name, FALSE, "write", 0, FALSE)]

RECURSIVE SyncAll(_, _, _, _)
SyncAll(st, names, chs, lines) ==
    IF names = <<>>
    THEN [st |-> st, lines |-> lines]
    ELSE LET r == SyncOne(st, Head(names), Head(chs))
         IN  SyncAll(r.st, Tail(names), Tail(chs), Append(lines, r.line))

(* the environment's choices for one sync *)
NoSet == [title |-> "", stickers |-> <<>>]

SyncChoices ==
    { [fetch |-> f, set |-> NoSet, compose |-> "ok", save |-> "ok"] :
        f \in {"Telegram"} }
    \cup { [fetch |-> "ok", set |-> s, compose |-> "fail", save |-> "ok"] : s \in RemoteSets }
    \cup { [fetch |-> "ok", set |-> s, compose |-> "ok", save |-> w] :
             s \in RemoteSets, w \in {"ok", "unchanged", "truncated"} }

(***************************************************************************)
(* send_message (index.ts).  len is text.length; net is what the network   *)
(* does with the request, should one be made.                              *)
(***************************************************************************)
SendOutcomes == {"sent", "api_error", "rejected", "unparseable"}

(* a plausible slip: the length check is missing *)
send_message_unchecked(tok, len, net) ==
    IF ~tok
    THEN [calls |-> 0, threw |-> FALSE, text |-> "TELEGRAM_BOT_TOKEN not set"]
    ELSE IF net \in {"rejected", "unparseable"}
    THEN [calls |-> 1, threw |-> TRUE, text |-> ""]
    ELSE IF net = "api_error"
    THEN [calls |-> 1, threw |-> FALSE, text |-> "Telegram error"]
    ELSE [calls |-> 1, threw |-> FALSE, text |-> "Message sent"]

send_message(tok, len, net) ==
    IF ~tok
    THEN [calls |-> 0, threw |-> FALSE, text |-> "TELEGRAM_BOT_TOKEN not set"]
    ELSE IF len > MaxMessageLen
    THEN [calls |-> 0, threw |-> FALSE, text |-> "Message too long"]
    ELSE IF net \in {"rejected", "unparseable"}
    THEN [calls |-> 1, threw |-> TRUE, text |-> ""]
    ELSE IF net = "api_error"
    THEN [calls |-> 1, threw |-> FALSE, text |-> "Telegram error"]
    ELSE [calls |-> 1, threw |-> FALSE, text |-> "Message sent"]

(***************************************************************************)
(* search_packs (index.ts) over searchStickerSets (fstik.ts): every way    *)
(* the remote call fails is caught by the handler.                         *)
(***************************************************************************)
SearchOutcomes == {"found", "empty", "api_error", "rejected", "unparseable"}

search_packs(net) ==
    CASE net = "found" -> [calls |-> 1, threw |-> FALSE, text |-> "listing"]
      [] net = "empty" -> [calls |-> 1, threw |-> FALSE, text |-> "No packs found"]
      [] OTHER -> [calls |-> 1, threw |-> FALSE, text |-> "fstik search error"]

(***************************************************************************)
(* The server: its state after start-up and one action per tool call.      *)
(***************************************************************************)
NoCall == [tool |-> "none", query |-> <<>>, text |-> <<>>, format |-> ""]

NoResult == [done |-> FALSE, value |-> <<>>]

NoJob ==
    [phase |-> "idle", name |-> "", title |-> "", emojis |-> <<>>, dl |-> <<>>,
     thumbs |-> <<>>, broken |-> {}, cells |-> <<>>]

(* no preview file followed *)
NoSheets == [n \in PackNames |-> Undefined]

NoOp ==
    [op |-> "none", lines |-> <<>>, query |-> <<>>, found |-> <<>>,
     len |-> 0, calls |-> 0, threw |-> FALSE, text |-> ""]

(* a document left by an earlier run of the server *)
EarlierPack ==
    [name |-> "p1", title |-> "T1",
     emojis |-> <<ToCachedEmoji(StickerC, "p1")>>,
     synced_at |-> "earlier", preview_path |-> Some("p1")]

InitialFiles == {MissingFile, WrittenFile(<<[key |-> "p1", value |-> EarlierPack]>>)}

Init ==
    /\ token \in BOOLEAN
    /\ envPacks \in {<<>>, <<"p1", "p2">>}
    /\ file \in InitialFiles
    /\ packs = Load(file)
    /\ previews = {packs[i].key : i \in DOMAIN packs}
    /\ alive = TRUE
    /\ lastOk = [n \in PackNames |-> Undefined]
    /\ lastOp = NoOp
    /\ arg = NoCall
    /\ out = NoResult
    /\ job = NoJob
    /\ sheets = NoSheets

ServerState ==
    [token |-> token, packs |-> packs, file |-> file, previews |-> previews,
     lastOk |-> lastOk]

(* sync_emoji_pack: pack_name is given ({n}) or omitted ({}) *)
SyncEmojiPack(pack_name, chs) ==
    LET names == IF pack_name # Undefined THEN <<TheValue(pack_name)>> ELSE envPacks
    IN  /\ alive
        /\ names # <<>>
        /\ DOMAIN chs = DOMAIN names
        /\ LET r == SyncAll(ServerState, names, chs, <<>>)
           IN  /\ packs' = r.st.packs
               /\ file' = r.st.file
               /\ previews' = r.st.previews
               /\ lastOk' = r.st.lastOk
               /\ lastOp' = [NoOp EXCEPT !.op = "sync_emoji_pack", !.lines = r.lines]
        /\ UNCHANGED <<token, envPacks, alive, callVars>>

(* sync_emoji_pack with no name given and EMOJI_PACKS empty *)
SyncNothing ==
    /\ alive
    /\ envPacks = <<>>
    /\ lastOp' = [NoOp EXCEPT !.op = "sync_emoji_pack", !.text = "No pack name provided"]
    /\ UNCHANGED <<token, envPacks, packs, file, previews, alive, lastOk, callVars>>

SendMessage(len, net) ==
    /\ alive
    /\ LET r == send_message(token, len, net)
       IN  lastOp' = [NoOp EXCEPT !.op = "send_message", !.len = len, !.calls = r.calls,
                                  !.threw = r.threw, !.text = r.text]
    /\ UNCHANGED <<token, envPacks, packs, file, previews, alive, lastOk, callVars>>

SearchPacks(net) ==
    /\ alive
    /\ LET r == search_packs(net)
       IN  lastOp' = [NoOp EXCEPT !.op = "search_packs", !.calls = r.calls,
                                  !.threw = r.threw, !.text = r.text]
    /\ UNCHANGED <<token, envPacks, packs, file, previews, alive, lastOk, callVars>>

(* the process is started again: index.ts line 22 runs the Cache constructor *)
Restart ==
    /\ alive
    /\ alive' = ~LoadThrows(file)
    /\ packs' = Load(file)
    /\ lastOp' = [NoOp EXCEPT !.op = "restart"]
    /\ UNCHANGED <<token, envPacks, file, previews, lastOk, callVars>>

TextLengths == {0, MaxMessageLen, MaxMessageLen + 1}

Next ==
    \/ \E n \in PackNames : \E ch \in SyncChoices : SyncEmojiPack(Some(n), <<ch>>)
    \/ \E c1, c2 \in SyncChoices : SyncEmojiPack(Undefined, <<c1, c2>>)
    \/ SyncNothing
    \/ \E len \in TextLengths : \E net \in SendOutcomes : SendMessage(len, net)
    \/ \E net \in SearchOutcomes : SearchPacks(net)
    \/ Restart

Spec == Init /\ [][Next]_vars

(***************************************************************************)
(* Properties of the pack store.                                           *)
(***************************************************************************)
SyncLines == IF lastOp.op = "sync_emoji_pack" THEN lastOp.lines ELSE <<>>

(* C1 (replacement): after a successful sync of a name n that follows a    *)
(* successful sync of n with a different emoji list, get(n) is a record    *)
(* whose emoji list is exactly the list fetched last, in its order, and    *)
(* the store holds exactly one record under n.                             *)
C1_Replacement ==
    \A i \in DOMAIN SyncLines :
        LET n == SyncLines[i].name
        IN  (SyncLines[i].ok /\ SyncLines[i].replaced) =>
                /\ Cardinality(KeyIndexes(packs, n)) = 1
                /\ getPack(packs, n) # Undefined
                /\ Some(TheValue(getPack(packs, n)).emojis) = lastOk[n]
                /\ Len(TheValue(getPack(packs, n)).emojis) = SyncLines[i].count

C1_SecondSyncReplaced ==
    \E i \in DOMAIN SyncLines :
        /\ SyncLines[i].ok
        /\ SyncLines[i].replaced
        /\ SyncLines[i].name = "p2"
        /\ Len(packs) = 2

(* C2: whenever sync_emoji_pack reports failure for a name n, whatever     *)
(* step failed, get(n) afterwards returns what it returned before that     *)
(* sync; and no tool call removes a record from the store.                 *)
C2_FailedSyncLeavesStore ==
    [][ /\ lastOp'.op = "sync_emoji_pack" =>
            \A i \in DOMAIN lastOp'.lines :
                ~lastOp'.lines[i].ok =>
                    getPack(packs', lastOp'.lines[i].name) = getPack(packs, lastOp'.lines[i].name)
        /\ lastOp'.op # "restart" =>
            \A n \in PackNames : getPack(packs, n) # Undefined => getPack(packs', n) # Undefined
      ]_vars

(* C3 (durability round trip): between tool calls, a store constructed     *)
(* from the backing document holds, for every name, the record that get    *)
(* returns in the running process, emoji lists in the same order; a        *)
(* missing file loads as the empty store.                                  *)
C3_DurabilityRoundTrip ==
    alive =>
        /\ ~LoadThrows(file)
        /\ \A n \in PackNames : getPack(Load(file), n) = getPack(packs, n)
        /\ file.state = "missing" => Load(file) = <<>>

(***************************************************************************)
(* Properties of send_message and of the handlers' error reporting.        *)
(***************************************************************************)
(* C8 as stated: a text longer than 4096 characters gets the too-long text *)
(* and no outbound call, whether or not credentials are set; a text of at  *)
(* most 4096 characters with credentials set makes exactly one call.       *)
C8_TooLongInEveryConfiguration ==
    lastOp.op = "send_message" =>
        /\ lastOp.len > MaxMessageLen =>
              lastOp.text = "Message too long" /\ lastOp.calls = 0
        /\ (lastOp.len <= MaxMessageLen /\ token) => lastOp.calls = 1

(* C8 as amended: a text longer than 4096 characters never causes an       *)
(* outbound call; it gets the too-long text when credentials are set and   *)
(* the credentials-not-set text otherwise; a text of at most 4096          *)
(* characters with credentials set makes exactly one call.                 *)
C8_TooLongNeverSent ==
    lastOp.op = "send_message" =>
        /\ lastOp.len > MaxMessageLen =>
              /\ lastOp.calls = 0
              /\ ~lastOp.threw
              /\ lastOp.text = IF token THEN "Message too long"
                               ELSE "TELEGRAM_BOT_TOKEN not set"
        /\ (lastOp.len <= MaxMessageLen /\ token) => lastOp.calls = 1

C8_LongTextRejected ==
    /\ lastOp.op = "send_message"
    /\ token
    /\ lastOp.len = MaxMessageLen + 1
    /\ lastOp.text = "Message too long"

(* C9: send_message, search_packs and sync_emoji_pack each report the      *)
(* failure of their remote call as a text result and never throw.          *)
C9_FailuresAreTextResults ==
    lastOp.op \in {"send_message", "search_packs", "sync_emoji_pack"} =>
        /\ ~lastOp.threw
        /\ lastOp.op = "sync_emoji_pack" => (lastOp.lines # <<>> \/ lastOp.text # "")
        /\ lastOp.op # "sync_emoji_pack" => lastOp.text # ""

(***************************************************************************)
(* The read-only tools, called on a store that syncs have built.           *)
(***************************************************************************)
PackOf(name, set) ==
    [name |-> name, title |-> set.title,
     emojis |-> [i \in DOMAIN set.stickers |-> ToCachedEmoji(set.stickers[i], name)],
     synced_at |-> "now", preview_path |-> Some(name)]

SetAB == [title |-> "T1", stickers |-> <<StickerA, StickerB>>]

SetBC == [title |-> "T2", stickers |-> <<StickerB, StickerC>>]

BuiltStores ==
    { <<>>,
      AssignPack(<<>>, PackOf("p1", SetAB)),
      AssignPack(<<>>, PackOf("p2", SetBC)),
      AssignPack(AssignPack(<<>>, PackOf("p1", SetAB)), PackOf("p2", SetBC)),
      AssignPack(AssignPack(<<>>, PackOf("p2", SetBC)), PackOf("p1", SetBC)) }

RECURSIVE StringsUpTo(_, _)
StringsUpTo(chars, n) ==
    IF n = 0
    THEN {<<>>}
    ELSE LET shorter == StringsUpTo(chars, n - 1)
         IN  shorter \cup {Append(s, c) : s \in shorter, c \in chars}

QueryChars == {"1", "2", "A", "g", " ", "fire", "FE0F"}

Queries == StringsUpTo(QueryChars, MaxQueryLen)

InitReadOnly ==
    /\ token \in BOOLEAN
    /\ envPacks = <<>>
    /\ packs \in BuiltStores
    /\ file = WrittenFile(packs)
    /\ previews = {packs[i].key : i \in DOMAIN packs}
    /\ alive = TRUE
    /\ lastOk = [n \in PackNames |-> Undefined]
    /\ lastOp = NoOp
    /\ out = NoResult
    /\ job = NoJob
    /\ sheets = NoSheets

(* search_emoji *)
SearchEmoji ==
    /\ alive
    /\ arg.tool = "search_emoji"
    /\ ~out.done
    /\ out' = [done |-> TRUE, value |-> searchEmoji(packs, arg.query)]
    /\ UNCHANGED <<token, envPacks, packs, file, previews, alive, lastOk, lastOp, arg, job, sheets>>

SearchInit ==
    /\ InitReadOnly
    /\ \E q \in Queries : arg = [NoCall EXCEPT !.tool = "search_emoji", !.query = q]

SearchNext == SearchEmoji

SearchSpec == SearchInit /\ [][SearchNext]_vars

InSeq(x, seq) == \E i \in DOMAIN seq : seq[i] = x

(* C10: for every cached emoji e and every query that is a non-empty,      *)
(* non-blank substring of e's id, search_emoji(query) contains e.          *)
C10_FindsByIdSubstring ==
    (out.done /\ arg.tool = "search_emoji") =>
        \A i \in DOMAIN allEmojis(packs) :
            LET e == allEmojis(packs)[i]
            IN  (arg.query # <<>> /\ Trim(arg.query) # <<>>
                 /\ Includes(e.custom_emoji_id, arg.query)) => InSeq(e, out.value)

(***************************************************************************)
(* format_message (index.ts).  The markup is spelled out token by token    *)
(* far enough that its colon, which the second pass reads, is a token of   *)
(* its own.                                                                *)
(***************************************************************************)
IsDigit(c) == c \in {"0", "1", "2", "3", "4", "5", "6", "7", "8", "9"}

HtmlOpen == "<tg-emoji emoji-id=\""

LinkOpen == "!["

HtmlMarkup(id, glyph) == <<HtmlOpen>> \o id \o <<"\">">> \o glyph \o <<"</tg-emoji>">>

LinkMarkup(id, glyph) == <<LinkOpen>> \o glyph \o <<"](tg", ":", "//emoji?id=">> \o id \o <<")">>

Markup(format, id, glyph) ==
    IF format = "html" THEN HtmlMarkup(id, glyph) ELSE LinkMarkup(id, glyph)

(* allEmojis.find(pred): the first element that satisfies pred, or         *)
(* undefined; `matching` is the set of the indexes whose element does      *)
Find(seq, matching) ==
    IF matching = {}
    THEN Undefined
    ELSE Some(seq[CHOOSE i \in matching : \A j \in matching : i <= j])

(* the callback of the first replace: an unknown id gets the glyph U+2753 *)
IdReplacement(all, format, id) ==
    LET e == Find(all, {i \in DOMAIN all : all[i].custom_emoji_id = id})
        fallback == IF e = Undefined THEN <<"qmark">> ELSE TheValue(e).emoji
    IN  Markup(format, id, fallback)

(* the callback of the second replace: an unknown glyph is left as written *)
GlyphReplacement(all, format, match) ==
    LET inner == SubSeq(match, 2, Len(match) - 1)
        norm == stripVariationSelectors(inner)
        e == Find(all, {i \in DOMAIN all : stripVariationSelectors(all[i].emoji) = norm})
    IN  IF e = Undefined
        THEN match
        ELSE Markup(format, TheValue(e).custom_emoji_id, TheValue(e).emoji)

(* the end of the match of /\{(\d+)\}/ that starts at i, or 0 *)
IdMatchEnd(s, i) ==
    IF s[i] # "{"
    THEN 0
    ELSE LET stops == {j \in (i + 1)..Len(s) : ~IsDigit(s[j])}
             j == IF stops = {} THEN 0 ELSE CHOOSE k \in stops : \A m \in stops : k <= m
         IN  IF j > i + 1 /\ s[j] = "}" THEN j ELSE 0

(* the end of the match of /:([^:]+):/ that starts at i, or 0 *)
GlyphMatchEnd(s, i) ==
    IF s[i] # ":"
    THEN 0
    ELSE LET colons == {j \in (i + 1)..Len(s) : s[j] = ":"}
             j == IF colons = {} THEN 0 ELSE CHOOSE k \in colons : \A m \in colons : k <= m
         IN  IF j > i + 1 THEN j ELSE 0

(* result.replace(/\{(\d+)\}/g, ...) from position i on *)
RECURSIVE ReplaceIds(_, _, _, _)
ReplaceIds(all, format, s, i) ==
    IF i > Len(s)
    THEN <<>>
    ELSE LET j == IdMatchEnd(s, i)
         IN  IF j = 0
             THEN <<s[i]>> \o ReplaceIds(all, format, s, i + 1)
             ELSE IdReplacement(all, format, SubSeq(s, i + 1, j - 1))
                    \o ReplaceIds(all, format, s, j + 1)

(* result.replace(/:([^:]+):/g, ...) from position i on *)
RECURSIVE ReplaceGlyphs(_, _, _, _)
ReplaceGlyphs(all, format, s, i) ==
    IF i > Len(s)
    THEN <<>>
    ELSE LET j == GlyphMatchEnd(s, i)
         IN  IF j = 0
             THEN <<s[i]>> \o ReplaceGlyphs(all, format, s, i + 1)
             ELSE GlyphReplacement(all, format, SubSeq(s, i, j))
                    \o ReplaceGlyphs(all, format, s, j + 1)

format_message(ps, text, format) ==
    LET all == allEmojis(ps)
    IN  ReplaceGlyphs(all, format, ReplaceIds(all, format, text, 1), 1)

(* format_message *)
FormatMessage ==
    /\ alive
    /\ arg.tool = "format_message"
    /\ ~out.done
    /\ out' = [done |-> TRUE, value |-> format_message(packs, arg.text, arg.format)]
    /\ UNCHANGED <<token, envPacks, packs, file, previews, alive, lastOk, lastOp, arg, job, sheets>>

MaxPieces == 4

Pieces ==
    { <<":">>, <<"{">>, <<"}">>, <<"2">>, <<"fire">>, <<"FE0F">>,
      <<"{", "2", "}">>, <<":", "fire", ":">> }

RECURSIVE TextsUpTo(_)
TextsUpTo(n) ==
    IF n = 0
    THEN {<<>>}
    ELSE LET shorter == TextsUpTo(n - 1)
         IN  shorter \cup {s \o piece : s \in shorter, piece \in Pieces}

FormatInit ==
    /\ InitReadOnly
    /\ \E t \in TextsUpTo(MaxPieces) : \E f \in {"html", "markdownv2"} :
          arg = [NoCall EXCEPT !.tool = "format_message", !.text = t, !.format = f]

FormatNext == FormatMessage

FormatSpec == FormatInit /\ [][FormatNext]_vars

(***************************************************************************)
(* Properties of format_message.  A placeholder of the input text is told  *)
(* by the grammar alone: {<digits>}, and :<run of non-colon characters>:   *)
(* read from left to right without overlap.                                *)
(***************************************************************************)
IsIdPlaceholder(s, i, j) ==
    /\ i \in DOMAIN s /\ j \in DOMAIN s /\ j > i + 1
    /\ s[i] = "{" /\ s[j] = "}"
    /\ \A k \in (i + 1)..(j - 1) : IsDigit(s[k])

IsGlyphOccurrence(s, i, j) ==
    /\ i \in DOMAIN s /\ j \in DOMAIN s /\ j > i + 1
    /\ s[i] = ":" /\ s[j] = ":"
    /\ \A k \in (i + 1)..(j - 1) : s[k] # ":"

RECURSIVE GlyphPlaceholders(_, _)
GlyphPlaceholders(s, i) ==
    IF i > Len(s)
    THEN {}
    ELSE IF \E j \in DOMAIN s : IsGlyphOccurrence(s, i, j)
    THEN LET j == CHOOSE k \in DOMAIN s : IsGlyphOccurrence(s, i, k)
         IN  {<<i, j>>} \cup GlyphPlaceholders(s, j + 1)
    ELSE GlyphPlaceholders(s, i + 1)

HasIdPlaceholder(s) == \E i, j \in DOMAIN s : IsIdPlaceholder(s, i, j)

CachedWithId(all, id) == {k \in DOMAIN all : all[k].custom_emoji_id = id}

CachedWithGlyph(all, run) ==
    {k \in DOMAIN all :
        stripVariationSelectors(all[k].emoji) = stripVariationSelectors(run)}

First(indexes) == CHOOSE k \in indexes : \A m \in indexes : k <= m

(* the markup an id placeholder stands for *)
IdMarkup(all, format, id) ==
    Markup(format, id,
           IF CachedWithId(all, id) = {} THEN <<"qmark">>
           ELSE all[First(CachedWithId(all, id))].emoji)

(* the markup a glyph placeholder with a cached glyph stands for *)
GlyphMarkup(all, format, run) ==
    LET e == all[First(CachedWithGlyph(all, run))]
    IN  Markup(format, e.custom_emoji_id, e.emoji)

Formatted == out.done /\ arg.tool = "format_message"

IdPlaceholdersResolved(all, format, text, result) ==
    \A i, j \in DOMAIN text :
        IsIdPlaceholder(text, i, j) =>
            Includes(result, IdMarkup(all, format, SubSeq(text, i + 1, j - 1)))

UnknownGlyphsKept(all, text, result) ==
    \A u \in GlyphPlaceholders(text, 1) :
        LET run == SubSeq(text, u[1] + 1, u[2] - 1)
        IN  (~HasIdPlaceholder(run) /\ CachedWithGlyph(all, run) = {}) =>
                Includes(result, SubSeq(text, u[1], u[2]))

(* C5 (placeholder asymmetry): in both formats, every id placeholder of    *)
(* the text is rewritten to markup with its id and the cached glyph, or    *)
(* the glyph U+2753 when the id is not cached, whereas every glyph         *)
(* placeholder whose glyph is not cached is in the output as written.      *)
C5_PlaceholderAsymmetry ==
    Formatted =>
        /\ IdPlaceholdersResolved(allEmojis(packs), arg.format, arg.text, out.value)
        /\ UnknownGlyphsKept(allEmojis(packs), arg.text, out.value)

(* what is left of C5 in the tag-markup format *)
C5_AsymmetryInTagMarkup == (Formatted /\ arg.format = "html") => C5_PlaceholderAsymmetry

(* C6: every occurrence of :<run>: in the text whose run, variation        *)
(* selectors stripped, is the stripped glyph of a cached emoji is          *)
(* rewritten to the markup of that emoji, whatever other colons the text   *)
(* contains.                                                               *)
C6_EveryKnownGlyphRewritten ==
    Formatted =>
        \A i, j \in DOMAIN arg.text :
            LET run == SubSeq(arg.text, i + 1, j - 1)
            IN  (IsGlyphOccurrence(arg.text, i, j)
                 /\ CachedWithGlyph(allEmojis(packs), run) # {}) =>
                    Includes(out.value, GlyphMarkup(allEmojis(packs), arg.format, run))

Opener(format) == IF format = "html" THEN HtmlOpen ELSE LinkOpen

Substitutions(result, format) == Cardinality({i \in DOMAIN result : result[i] = Opener(format)})

OtherFormat(format) == IF format = "html" THEN "markdownv2" ELSE "html"

(* C7: the two grammars are rewritten independently: the markup of every   *)
(* id placeholder is in the output unmodified, and both formats substitute *)
(* the same placeholders of the same text.                                 *)
C7_FormatsSubstituteAlike ==
    Formatted =>
        /\ IdPlaceholdersResolved(allEmojis(packs), arg.format, arg.text, out.value)
        /\ Substitutions(out.value, arg.format)
             = Substitutions(format_message(packs, arg.text, OtherFormat(arg.format)),
                             OtherFormat(arg.format))

(***************************************************************************)
(* One sync followed step by step (index.ts, telegram.ts).  job.dl[i] is   *)
(* the promise of the download of item i:                                  *)
(*   pc       where downloadFile stands: awaiting the response of the      *)
(*            getFile request ("getFile.headers"), reading its body        *)
(*            ("getFile.body"), awaiting the response of the file request  *)
(*            ("file.headers"), reading its body ("file.body"), or         *)
(*            settled ("fulfilled", "rejected");                           *)
(*   armed    the timer of fetchWithTimeout is set;                        *)
(*   stalled  the remote end has gone silent for the current request;      *)
(*   exceeded (history) some request of this download has been in flight   *)
(*            for longer than TIMEOUT_MS;                                  *)
(*   value    the bytes the promise is fulfilled with.                     *)
(***************************************************************************)
Bytes(fileId) == <<fileId>>

EmptyBuffer == <<>>

InFlight(d) == d.pc \in {"getFile.headers", "getFile.body", "file.headers", "file.body"}

AwaitingResponse(d) == d.pc \in {"getFile.headers", "file.headers"}

ReadingBody(d) == d.pc \in {"getFile.body", "file.body"}

Settled(d) == d.pc \in {"fulfilled", "rejected"}

(* fetchWithTimeout up to its await: the timer is set, the request leaves *)
BeginRequest(d, pc) == [d EXCEPT !.pc = pc, !.armed = TRUE, !.stalled = FALSE]

(* fetchWithTimeout after its await: `finally` clears the timer *)
ResponseReturned(d, pc) == [d EXCEPT !.pc = pc, !.armed = FALSE]

Reject(d) == [d EXCEPT !.pc = "rejected", !.armed = FALSE]

(* s.thumbnail ? downloadFile(TOKEN, s.thumbnail.file_id) : Promise.resolve(Buffer.alloc(0)) *)
LaunchDownload(thumbnail) ==
    IF thumbnail = Undefined
    THEN [pc |-> "fulfilled", armed |-> FALSE, stalled |-> FALSE, exceeded |-> FALSE,
          fileId |-> "", value |-> EmptyBuffer]
    ELSE BeginRequest([pc |-> "", armed |-> FALSE, stalled |-> FALSE, exceeded |-> FALSE,
                       fileId |-> TheValue(thumbnail), value |-> EmptyBuffer],
                      "getFile.headers")

(* a plausible slip: only the fulfilled results are kept, so the blobs of *)
(* the items after a failed one move up                                  *)
CollectThumbsFulfilledOnly(dl) ==
    LET kept == SelectSeq(dl, LAMBDA d : d.pc = "fulfilled")
    IN  [i \in DOMAIN kept |-> kept[i].value]

(* results.map((r) => (r.status === "fulfilled" ? r.value : Buffer.alloc(0))) *)
CollectThumbs(dl) == [i \in DOMAIN dl |-> IF dl[i].pc = "fulfilled" THEN dl[i].value ELSE EmptyBuffer]

(* generateSpriteSheet: which cells get a thumbnail image composited *)
SpriteCells(thumbs, broken) == [i \in DOMAIN thumbs |-> thumbs[i] # EmptyBuffer /\ i \notin broken]

FetchSets == RemoteSets \cup {[title |-> "T1", stickers |-> <<StickerA, StickerC>>]}

JobFrame ==
    UNCHANGED <<token, envPacks, packs, file, previews, alive, lastOk, lastOp, arg, out, sheets>>

(* sync_emoji_pack(name) is called; without TOKEN syncViaTelegram throws *)
StartSync(name) ==
    /\ alive
    /\ job.phase = "idle"
    /\ job' = [job EXCEPT !.name = name, !.phase = IF token THEN "meta" ELSE "failed"]
    /\ JobFrame

(* getStickerSet returns; the emoji are derived and every download starts *)
MetaArrives(set) ==
    /\ job.phase = "meta"
    /\ job' = [job EXCEPT
                 !.phase = "downloading",
                 !.title = set.title,
                 !.emojis = [i \in DOMAIN set.stickers |-> ToCachedEmoji(set.stickers[i], job.name)],
                 !.dl = [i \in DOMAIN set.stickers |-> LaunchDownload(set.stickers[i].thumbnail)]]
    /\ JobFrame

(* getStickerSet throws *)
MetaFails ==
    /\ job.phase = "meta"
    /\ job' = [job EXCEPT !.phase = "failed"]
    /\ JobFrame

(* the response of the pending request of download i arrives *)
HeadersArrive(i, httpOk) ==
    /\ job.phase = "downloading"
    /\ i \in DOMAIN job.dl
    /\ AwaitingResponse(job.dl[i])
    /\ ~job.dl[i].stalled
    /\ LET d == job.dl[i]
           body == IF d.pc = "getFile.headers" THEN "getFile.body" ELSE "file.body"
       IN  job' = [job EXCEPT !.dl[i] = IF httpOk THEN ResponseReturned(d, body)
                                        ELSE Reject(ResponseReturned(d, d.pc))]
    /\ JobFrame

(* the pending request of download i fails in the network *)
RequestFails(i) ==
    /\ job.phase = "downloading"
    /\ i \in DOMAIN job.dl
    /\ AwaitingResponse(job.dl[i])
    /\ ~job.dl[i].stalled
    /\ job' = [job EXCEPT !.dl[i] = Reject(job.dl[i])]
    /\ JobFrame

(* TIMEOUT_MS after the request left, its timer fires: controller.abort() *)
TimerFires(i) ==
    /\ job.phase = "downloading"
    /\ i \in DOMAIN job.dl
    /\ InFlight(job.dl[i])
    /\ job.dl[i].armed
    /\ job' = [job EXCEPT !.dl[i] = [Reject(job.dl[i]) EXCEPT !.exceeded = TRUE]]
    /\ JobFrame

(* TIMEOUT_MS after the request left, no timer is set any more *)
TimeLimitPasses(i) ==
    /\ job.phase = "downloading"
    /\ i \in DOMAIN job.dl
    /\ InFlight(job.dl[i])
    /\ ~job.dl[i].armed
    /\ ~job.dl[i].exceeded
    /\ job' = [job EXCEPT !.dl[i].exceeded = TRUE]
    /\ JobFrame

(* the body of the response is read to its end: res.json(), res.arrayBuffer() *)
BodyArrives(i, apiOk) ==
    /\ job.phase = "downloading"
    /\ i \in DOMAIN job.dl
    /\ ReadingBody(job.dl[i])
    /\ ~job.dl[i].stalled
    /\ LET d == job.dl[i]
       IN  job' = [job EXCEPT !.dl[i] =
                     IF d.pc = "getFile.body"
                     THEN IF apiOk THEN BeginRequest(d, "file.headers") ELSE Reject(d)
                     ELSE [d EXCEPT !.pc = "fulfilled", !.value = Bytes(d.fileId)]]
    /\ JobFrame

(* reading the body fails *)
BodyFails(i) ==
    /\ job.phase = "downloading"
    /\ i \in DOMAIN job.dl
    /\ ReadingBody(job.dl[i])
    /\ ~job.dl[i].stalled
    /\ job' = [job EXCEPT !.dl[i] = Reject(job.dl[i])]
    /\ JobFrame

(* the remote end goes silent: nothing more arrives for this request, not *)
(* even an error                                                          *)
Stall(i) ==
    /\ job.phase = "downloading"
    /\ i \in DOMAIN job.dl
    /\ InFlight(job.dl[i])
    /\ ~job.dl[i].stalled
    /\ job' = [job EXCEPT !.dl[i].stalled = TRUE]
    /\ JobFrame

(* Promise.allSettled resolves once every download has settled *)
Join ==
    /\ job.phase = "downloading"
    /\ \A i \in DOMAIN job.dl : Settled(job.dl[i])
    /\ job' = [job EXCEPT !.phase = "joined", !.thumbs = CollectThumbs(job.dl)]
    /\ JobFrame

(* generateSpriteSheet: the thumbnails in `broken` do not decode *)
Compose(broken, written) ==
    /\ job.phase = "joined"
    /\ broken \subseteq DOMAIN job.thumbs
    /\ IF written
       THEN /\ job' = [job EXCEPT !.phase = "composed", !.broken = broken,
                                  !.cells = SpriteCells(job.thumbs, broken)]
            /\ previews' = previews \cup {job.name}
       ELSE /\ job' = [job EXCEPT !.phase = "failed"]
            /\ previews' = previews
    /\ UNCHANGED <<token, envPacks, packs, file, alive, lastOk, lastOp, arg, out, sheets>>

(* cache.setPack and the result line *)
Store(outcome) ==
    /\ job.phase = "composed"
    /\ LET pack == [name |-> job.name, title |-> job.title, emojis |-> job.emojis,
                    synced_at |-> "now", preview_path |-> Some(job.name)]
           stored == setPack(ServerState, pack, outcome)
       IN  /\ packs' = stored.packs
           /\ file' = stored.file
    /\ job' = [job EXCEPT !.phase = IF outcome = "ok" THEN "done" ELSE "failed"]
    /\ UNCHANGED <<token, envPacks, previews, alive, lastOk, lastOp, arg, out, sheets>>

MaxItems == 2

Items == 1..MaxItems

FetchNext ==
    \/ \E n \in PackNames : StartSync(n)
    \/ \E set \in FetchSets : MetaArrives(set)
    \/ MetaFails
    \/ \E i \in Items : \E httpOk \in BOOLEAN : HeadersArrive(i, httpOk)
    \/ \E i \in Items : RequestFails(i)
    \/ \E i \in Items : TimerFires(i)
    \/ \E i \in Items : TimeLimitPasses(i)
    \/ \E i \in Items : \E apiOk \in BOOLEAN : BodyArrives(i, apiOk)
    \/ \E i \in Items : BodyFails(i)
    \/ \E i \in Items : Stall(i)
    \/ Join
    \/ \E broken \in SUBSET Items : \E written \in BOOLEAN : Compose(broken, written)
    \/ \E outcome \in {"ok", "unchanged", "truncated"} : Store(outcome)

(* timers fire and arrived responses are handled: the event loop runs on *)
FetchSpec == Init /\ [][FetchNext]_vars /\ WF_vars(FetchNext)

Exceeded(i) == i \in DOMAIN job.dl /\ job.dl[i].exceeded

SyncFinished == job.phase \in {"done", "failed"}

(* the final result of C4: when the sync has finished with a stored pack,  *)
(* the record holds every emoji and an item whose download exceeded the    *)
(* timeout has no thumbnail image in the preview.                          *)
C4_TimedOutItemHasNoThumbnail ==
    job.phase = "done" =>
        /\ getPack(packs, job.name) # Undefined
        /\ Len(TheValue(getPack(packs, job.name)).emojis) = Len(job.dl)
        /\ \A i \in DOMAIN job.dl : Exceeded(i) => ~job.cells[i]

(* C4: if the thumbnail download of an item does not complete within the   *)
(* timeout, wherever it stalls, the sync still eventually finishes, stores *)
(* a pack record with every emoji, and that item has no thumbnail image in *)
(* the preview.                                                            *)
C4_TimeoutStillSyncs ==
    /\ (\E i \in Items : Exceeded(i)) ~> SyncFinished
    /\ [](C4_TimedOutItemHasNoThumbnail)

FetchReturned == job.phase = "joined"

DownloadSucceeded(i) ==
    /\ job.emojis[i].thumbnail_file_id # Undefined
    /\ job.dl[i].pc = "fulfilled"

BlobsAligned ==
    /\ Len(job.thumbs) = Len(job.emojis)
    /\ Len(job.dl) = Len(job.emojis)
    /\ \A i \in DOMAIN job.emojis :
          job.thumbs[i] = IF DownloadSucceeded(i)
                          THEN Bytes(TheValue(job.emojis[i].thumbnail_file_id))
                          ELSE EmptyBuffer

SiblingsIsolated ==
    job.phase = "downloading" =>
        /\ job'.phase \in {"downloading", "joined"}
        /\ job'.emojis = job.emojis
        /\ DOMAIN job'.dl = DOMAIN job.dl
        /\ \A i \in DOMAIN job.dl :
              /\ Settled(job.dl[i]) => job'.dl[i] = job.dl[i]
              /\ job'.dl[i].pc = "rejected" /\ job.dl[i].pc # "rejected" =>
                    \A j \in DOMAIN job.dl \ {i} : job'.dl[j] = job.dl[j]

(* C12 (fan-out, fan-in): whatever order the downloads of the n items      *)
(* settle in and whichever of them fail or are aborted by their timer,     *)
(* syncViaTelegram returns n emojis and n blobs, blob i being the bytes    *)
(* downloaded for item i when its download succeeded and the empty blob    *)
(* otherwise (also when item i has no thumbnail); the failure of one item  *)
(* changes nothing for another item and never fails the fetch.             *)
C12_FanInAligned == [](FetchReturned => BlobsAligned) /\ [][SiblingsIsolated]_vars

C12_OneFailedOneDownloaded ==
    /\ FetchReturned
    /\ Len(job.emojis) = 2
    /\ job.dl[1].pc = "rejected"
    /\ job.dl[1].exceeded
    /\ job.thumbs = <<EmptyBuffer, Bytes("tC")>>

(***************************************************************************)
(* generateSpriteSheet (index.ts): the canvas and the list of pieces it    *)
(* composites.  A piece is a thumbnail (always resized to THUMB_SIZE by    *)
(* THUMB_SIZE) or a label (an SVG of THUMB_SIZE by LABEL_HEIGHT); `item`   *)
(* is the loop index i that pushed it.  A label's text "#<idx> ...<id>" is *)
(* kept as the pair of its number and its id part.                         *)
(***************************************************************************)
GRID_COLS == 8

THUMB_SIZE == 100

LABEL_HEIGHT == 20

CELL_H == THUMB_SIZE + LABEL_HEIGHT

(* Math.ceil(a / b) for a >= 0, b > 0 *)
Ceil(a, b) == (a + b - 1) \div b

(* String.prototype.slice(-k) *)
SliceLast(str, k) == IF Len(str) <= k THEN str ELSE SubSeq(str, Len(str) - k + 1, Len(str))

NoLabel == [idx |-> 0, shortId |-> <<>>]

(* a plausible slip: the rows are THUMB_SIZE apart, not CELL_H *)
ItemCompositesTightRows(emojis, thumbs, broken, i) ==
    LET col == i % GRID_COLS
        row == i \div GRID_COLS
        x == col * THUMB_SIZE
        y == row * THUMB_SIZE
        thumb == [kind |-> "thumb", item |-> i, left |-> x, top |-> y,
                  width |-> THUMB_SIZE, height |-> THUMB_SIZE, label |-> NoLabel]
        label == [kind |-> "label", item |-> i, left |-> x, top |-> y + THUMB_SIZE,
                  width |-> THUMB_SIZE, height |-> LABEL_HEIGHT,
                  label |-> [idx |-> i + 1,
                             shortId |-> SliceLast(emojis[i + 1].custom_emoji_id, 6)]]
    IN  (IF thumbs[i + 1] # EmptyBuffer /\ (i + 1) \notin broken THEN <<thumb>> ELSE <<>>)
        \o <<label>>

(* one iteration of the loop, for the 0-based index i: what it pushes *)
ItemComposites(emojis, thumbs, broken, i) ==
    LET col == i % GRID_COLS
        row == i \div GRID_COLS
        x == col * THUMB_SIZE
        y == row * CELL_H
        thumb == [kind |-> "thumb", item |-> i, left |-> x, top |-> y,
                  width |-> THUMB_SIZE, height |-> THUMB_SIZE, label |-> NoLabel]
        label == [kind |-> "label", item |-> i, left |-> x, top |-> y + THUMB_SIZE,
                  width |-> THUMB_SIZE, height |-> LABEL_HEIGHT,
                  label |-> [idx |-> i + 1,
                             shortId |-> SliceLast(emojis[i + 1].custom_emoji_id, 6)]]
    IN  (IF thumbs[i + 1] # EmptyBuffer /\ (i + 1) \notin broken THEN <<thumb>> ELSE <<>>)
        \o <<label>>

RECURSIVE Composites(_, _, _, _)
Composites(emojis, thumbs, broken, i) ==
    IF i >= Len(emojis)
    THEN <<>>
    ELSE ItemComposites(emojis, thumbs, broken, i) \o Composites(emojis, thumbs, broken, i + 1)

generateSpriteSheet(emojis, thumbs, broken) ==
    LET rows == Ceil(Len(emojis), GRID_COLS)
    IN  [rows |-> rows,
         width |-> GRID_COLS * THUMB_SIZE,
         height |-> rows * CELL_H,
         composites |-> Composites(emojis, thumbs, broken, 0)]

(***************************************************************************)
(* The composer called on lists of 1 to MaxEmojis emoji, with thumbnails   *)
(* present for all, none or every second item, some of them undecodable.   *)
(***************************************************************************)
MaxEmojis == 17

Digits == <<"0", "1", "2", "3", "4", "5", "6", "7", "8", "9">>

(* ids as Telegram gives them (long runs of digits) and short fallback ids *)
SampleId(i) ==
    IF i % 3 = 0
    THEN <<"A", "g", Digits[(i % 10) + 1]>>
    ELSE <<"5", "3", "6", "8", "3", "2", Digits[(i \div 10) + 1], Digits[(i % 10) + 1]>>

SampleEmojis(n) ==
    [i \in 1..n |-> [custom_emoji_id |-> SampleId(i), emoji |-> <<"fire">>, set_name |-> "p1",
                     thumbnail_file_id |-> Some("t")]]

ThumbPatterns == {"all", "none", "alternate"}

SampleThumbs(n, pattern) ==
    [i \in 1..n |-> IF pattern = "all" \/ (pattern = "alternate" /\ i % 2 = 1)
                    THEN Bytes("t") ELSE EmptyBuffer]

BrokenPatterns == {"none", "first", "thirds"}

SampleBroken(n, pattern) ==
    CASE pattern = "none" -> {}
      [] pattern = "first" -> {1}
      [] OTHER -> {i \in 1..n : i % 3 = 0}

ComposeInit ==
    /\ token = TRUE
    /\ envPacks = <<>>
    /\ packs = <<>>
    /\ file = MissingFile
    /\ previews = {}
    /\ alive = TRUE
    /\ lastOk = [n \in PackNames |-> Undefined]
    /\ lastOp = NoOp
    /\ out = NoResult
    /\ job = NoJob
    /\ sheets = NoSheets
    /\ \E n \in 1..MaxEmojis : \E tp \in ThumbPatterns : \E bp \in BrokenPatterns :
          arg = [tool |-> "generateSpriteSheet", emojis |-> SampleEmojis(n),
                 thumbs |-> SampleThumbs(n, tp), broken |-> SampleBroken(n, bp)]

ComposeSheet ==
    /\ arg.tool = "generateSpriteSheet"
    /\ ~out.done
    /\ out' = [done |-> TRUE, value |-> generateSpriteSheet(arg.emojis, arg.thumbs, arg.broken)]
    /\ UNCHANGED <<token, envPacks, packs, file, previews, alive, lastOk, lastOp, arg, job, sheets>>

ComposeNext == ComposeSheet

ComposeSpec == ComposeInit /\ [][ComposeNext]_vars

Composed == out.done /\ arg.tool = "generateSpriteSheet"

PiecesOf(sheet, i) == {k \in DOMAIN sheet.composites : sheet.composites[k].item = i}

LabelsOf(sheet, i) == {k \in PiecesOf(sheet, i) : sheet.composites[k].kind = "label"}

ThumbsOf(sheet, i) == {k \in PiecesOf(sheet, i) : sheet.composites[k].kind = "thumb"}

(* the last 6 characters of id, said without slice *)
IsLastSix(short, id) ==
    /\ Len(short) = (IF Len(id) < 6 THEN Len(id) ELSE 6)
    /\ \A j \in 1..Len(short) : short[j] = id[Len(id) - Len(short) + j]

InsideCanvas(sheet, c) ==
    /\ 0 <= c.left /\ c.left + c.width <= sheet.width
    /\ 0 <= c.top /\ c.top + c.height <= sheet.height

Disjoint(c, d) ==
    \/ c.left + c.width <= d.left
    \/ d.left + d.width <= c.left
    \/ c.top + c.height <= d.top
    \/ d.top + d.height <= c.top

(* C13 (grid layout): for a list of n >= 1 emoji the sheet has ceil(n/8)   *)
(* rows on a canvas of 8 cell-widths by rows x (cell + label height); item *)
(* i (0-based) is at column i mod 8, row i div 8; there is exactly one     *)
(* label per item, "#<i+1> ...<last 6 characters of id>", whatever became  *)
(* of its thumbnail; every thumbnail square and label strip lies inside    *)
(* the canvas and overlaps no other piece; for n = 17 there are 3 rows and *)
(* item 8 is at column 0, row 1.                                           *)
C13_GridLayout ==
    Composed =>
        LET sheet == out.value
            n == Len(arg.emojis)
        IN  /\ sheet.rows * 8 >= n /\ (sheet.rows - 1) * 8 < n
            /\ sheet.width = 8 * 100
            /\ sheet.height = sheet.rows * (100 + 20)
            /\ \A k \in DOMAIN sheet.composites : sheet.composites[k].item \in 0..(n - 1)
            /\ \A i \in 0..(n - 1) :
                  /\ Cardinality(LabelsOf(sheet, i)) = 1
                  /\ Cardinality(ThumbsOf(sheet, i)) <= 1
                  /\ \A k \in LabelsOf(sheet, i) :
                        LET c == sheet.composites[k]
                        IN  /\ c.label.idx = i + 1
                            /\ IsLastSix(c.label.shortId, arg.emojis[i + 1].custom_emoji_id)
                            /\ c.left = (i % 8) * 100
                            /\ c.top = (i \div 8) * (100 + 20) + 100
                  /\ \A k \in ThumbsOf(sheet, i) :
                        LET c == sheet.composites[k]
                        IN  /\ c.left = (i % 8) * 100
                            /\ c.top = (i \div 8) * (100 + 20)
            /\ \A k \in DOMAIN sheet.composites : InsideCanvas(sheet, sheet.composites[k])
            /\ \A k, l \in DOMAIN sheet.composites :
                  k # l => Disjoint(sheet.composites[k], sheet.composites[l])
            /\ n = 17 =>
                  /\ sheet.rows = 3
                  /\ \A k \in LabelsOf(sheet, 8) :
                        sheet.composites[k].left = 0 /\ sheet.composites[k].top = 120 + 100

C13_SeventeenComposed ==
    /\ Composed
    /\ Len(arg.emojis) = 17
    /\ out.value.rows = 3
    /\ ThumbsOf(out.value, 8) # {}
    /\ \E i \in 0..16 : ThumbsOf(out.value, i) = {}

(***************************************************************************)
(* get_pack and get_emoji (index.ts), called between syncs and restarts,   *)
(* with the sheet each sync composes kept per name in `sheets`.            *)
(***************************************************************************)
(* Array.prototype.findIndex, 0-based, -1 when nothing matches *)
FindIndex(matching) ==
    IF matching = {} THEN -1 ELSE (CHOOSE i \in matching : \A j \in matching : i <= j) - 1

(* seq[idx] of a JavaScript array, idx 0-based: undefined out of range *)
At(seq, idx) == IF idx + 1 \in DOMAIN seq THEN Some(seq[idx + 1]) ELSE Undefined

NotFound(text) == [found |-> FALSE, text |-> text, number |-> 0, emoji |-> Undefined,
                   image |-> "none"]

(* the get_emoji handler; img is the outcome of downloadFile and sharp *)
get_emoji(ps, tok, pack_name, index, emoji_id, img) ==
    LET pack == getPack(ps, pack_name)
    IN  IF pack = Undefined
        THEN NotFound("Pack not found")
        ELSE LET emojis == TheValue(pack).emojis
                 byId == index = Undefined /\ emoji_id # Undefined /\ TheValue(emoji_id) # <<>>
                 idx == IF index # Undefined
                        THEN Some(TheValue(index) - 1)
                        ELSE IF byId
                        THEN Some(FindIndex({i \in DOMAIN emojis :
                                               emojis[i].custom_emoji_id = TheValue(emoji_id)}))
                        ELSE Undefined
                 emoji == IF index # Undefined
                          THEN At(emojis, TheValue(idx))
                          ELSE IF byId /\ TheValue(idx) >= 0
                          THEN At(emojis, TheValue(idx))
                          ELSE Undefined
             IN  IF emoji = Undefined \/ idx = Undefined \/ TheValue(idx) < 0
                 THEN NotFound("Emoji not found")
                 ELSE [found |-> TRUE, text |-> "", number |-> TheValue(idx) + 1,
                       emoji |-> emoji,
                       image |-> IF tok /\ TheValue(emoji).thumbnail_file_id # Undefined
                                 THEN (IF img = "ok" THEN "image" ELSE "Could not load")
                                 ELSE "none"]

(* the get_pack handler: the numbered listing and the preview image *)
get_pack(ps, written, images, pack_name) ==
    LET pack == getPack(ps, pack_name)
    IN  IF pack = Undefined
        THEN [found |-> FALSE, lines |-> <<>>, image |-> Undefined]
        ELSE LET p == TheValue(pack)
             IN  [found |-> TRUE,
                  lines |-> [i \in DOMAIN p.emojis |->
                               [number |-> i, emoji |-> p.emojis[i].emoji,
                                id |-> p.emojis[i].custom_emoji_id]],
                  image |-> IF p.preview_path # Undefined /\ TheValue(p.preview_path) \in written
                            THEN images[TheValue(p.preview_path)]
                            ELSE Undefined]

MaxIndex == 3

Indexes == {Undefined} \cup {Some(k) : k \in (0 - 1)..MaxIndex}

EmojiIds == {Undefined, Some(<<>>), Some(<<"2">>), Some(<<"9">>)}

(* the one name that is synced here; the other name is never cached *)
SyncedNames == {"p1"}

ViewInit ==
    /\ token \in BOOLEAN
    /\ envPacks = <<>>
    /\ packs = <<>>
    /\ file = MissingFile
    /\ previews = {}
    /\ alive = TRUE
    /\ lastOk = [n \in PackNames |-> Undefined]
    /\ lastOp = NoOp
    /\ arg = NoCall
    /\ out = NoResult
    /\ job = NoJob
    /\ sheets = NoSheets

(* the blobs syncViaTelegram returns when every download succeeds *)
AllThumbs(emojis) ==
    [i \in DOMAIN emojis |-> IF emojis[i].thumbnail_file_id = Undefined
                             THEN EmptyBuffer
                             ELSE Bytes(TheValue(emojis[i].thumbnail_file_id))]

(* sync_emoji_pack(name): as SyncOne, with the sheet generateSpriteSheet writes *)
ViewSync(name, ch) ==
    /\ alive
    /\ LET r == SyncOne(ServerState, name, ch)
           got == syncViaTelegram(token, name, ch)
       IN  /\ packs' = r.st.packs
           /\ file' = r.st.file
           /\ previews' = r.st.previews
           /\ sheets' = IF got.ok /\ ch.compose = "ok"
                        THEN [sheets EXCEPT ![name] =
                                Some(generateSpriteSheet(got.emojis, AllThumbs(got.emojis), {}))]
                        ELSE sheets
    /\ arg' = NoCall
    /\ out' = NoResult
    /\ UNCHANGED <<token, envPacks, alive, lastOk, lastOp, job>>

ViewRestart ==
    /\ alive
    /\ alive' = ~LoadThrows(file)
    /\ packs' = Load(file)
    /\ arg' = NoCall
    /\ out' = NoResult
    /\ UNCHANGED <<token, envPacks, file, previews, lastOk, lastOp, job, sheets>>

GetEmoji(pack_name, index, emoji_id, img) ==
    /\ alive
    /\ arg' = [tool |-> "get_emoji", pack_name |-> pack_name, index |-> index,
               emoji_id |-> emoji_id]
    /\ out' = [done |-> TRUE, value |-> get_emoji(packs, token, pack_name, index, emoji_id, img)]
    /\ UNCHANGED <<token, envPacks, packs, file, previews, alive, lastOk, lastOp, job, sheets>>

GetPack(pack_name) ==
    /\ alive
    /\ arg' = [tool |-> "get_pack", pack_name |-> pack_name, index |-> Undefined,
               emoji_id |-> Undefined]
    /\ out' = [done |-> TRUE, value |-> get_pack(packs, previews, sheets, pack_name)]
    /\ UNCHANGED <<token, envPacks, packs, file, previews, alive, lastOk, lastOp, job, sheets>>

ViewNext ==
    \/ \E n \in SyncedNames : \E ch \in SyncChoices : ViewSync(n, ch)
    \/ ViewRestart
    \/ \E n \in PackNames : \E index \in Indexes : \E id \in EmojiIds :
          \E img \in {"ok", "fail"} : GetEmoji(n, index, id, img)
    \/ \E n \in PackNames : GetPack(n)

ViewSpec == ViewInit /\ [][ViewNext]_vars

AskedEmoji == out.done /\ arg.tool = "get_emoji"

AskedPack == out.done /\ arg.tool = "get_pack"

(* get_emoji with an index k on a cached pack of n emojis returns the      *)
(* emoji at position k-1 when 1 <= k <= n and the not-found text for any   *)
(* other k, whether or not an emoji_id is given as well (first half of     *)
(* C11).                                                                   *)
IndexAddressing ==
    (AskedEmoji /\ arg.index # Undefined /\ getPack(packs, arg.pack_name) # Undefined) =>
        LET emojis == TheValue(getPack(packs, arg.pack_name)).emojis
            k == TheValue(arg.index)
        IN  IF 1 <= k /\ k <= Len(emojis)
            THEN /\ out.value.found
                 /\ out.value.emoji = Some(emojis[k])
                 /\ out.value.number = k
            ELSE /\ ~out.value.found
                 /\ out.value.text = "Emoji not found"

(* the number get_pack lists an emoji under is the number get_emoji shows  *)
(* for it and the number on its label in the preview get_pack returns      *)
(* (second half of C11).                                                   *)
NumbersAgree ==
    (AskedPack /\ out.value.found /\ out.value.image # Undefined) =>
        LET sheet == TheValue(out.value.image)
        IN  \A i \in DOMAIN out.value.lines :
                LET line == out.value.lines[i]
                    shown == get_emoji(packs, token, arg.pack_name, Some(line.number),
                                       Undefined, "ok")
                IN  /\ shown.found
                    /\ shown.number = line.number
                    /\ TheValue(shown.emoji).custom_emoji_id = line.id
                    /\ \A k \in DOMAIN sheet.composites :
                          LET c == sheet.composites[k]
                          IN  (c.kind = "label" /\ IsLastSix(c.label.shortId, line.id)) =>
                                  c.label.idx = line.number

(* C11 (get_emoji addressing): index k returns the emoji at position k-1   *)
(* for 1 <= k <= n and the not-found text otherwise; with index and        *)
(* emoji_id both given only the index counts; and the number #k shown by   *)
(* get_emoji, by the get_pack listing and by the sprite-sheet label for    *)
(* the same emoji are equal.                                               *)
C11_GetEmojiAddressing == IndexAddressing /\ NumbersAgree

====
